---------------------------- MODULE Spec2Model ----------------------------
(***************************************************************************)
(* A model of script.py, the BLF to CSV converter: main() and              *)
(* convert_blf_to_csv().  Text is modelled as sequences of one-character   *)
(* strings so that formatting (hex, decimal, path suffixes) is computed    *)
(* and can be parsed back.  The BLF reader is a library the script only    *)
(* calls; its decoding contract (signature check, record validation,       *)
(* decode errors) is modelled from the specification.                      *)
(***************************************************************************)
EXTENDS Integers, Sequences, FiniteSets, TLC

\* Largest number of objects in a modelled BLF file.
MaxObjects == 2

\* script.py:90, the progress indicator's period.
ProgressEvery == 10000

--------------------------------------------------------------------------
(* Generic helpers *)

Range(s) == {s[i] : i \in 1..Len(s)}

SeqsUpTo(S, n) == UNION {[1..k -> S] : k \in 0..n}

Last(s) == s[Len(s)]

\* The greatest index of character c in s, 0 when absent (str.rfind + 1).
LastIndexOf(s, c) ==
    LET I == {i \in 1..Len(s) : s[i] = c}
    IN  IF I = {} THEN 0 ELSE CHOOSE i \in I : \A j \in I : j <= i

--------------------------------------------------------------------------
(* Formatting, as the f-strings of convert_blf_to_csv compute it *)

HexDigits == <<"0", "1", "2", "3", "4", "5", "6", "7",
               "8", "9", "A", "B", "C", "D", "E", "F">>

DecDigits == <<"0", "1", "2", "3", "4", "5", "6", "7", "8", "9">>

\* format(n, 'X'): uppercase hexadecimal, no prefix, no leading zeros.
RECURSIVE Hex(_)
Hex(n) == IF n < 16 THEN <<HexDigits[n + 1]>>
          ELSE Hex(n \div 16) \o <<HexDigits[(n % 16) + 1]>>

\* format(n, 'd')
RECURSIVE Dec(_)
Dec(n) == IF n < 10 THEN <<DecDigits[n + 1]>>
          ELSE Dec(n \div 10) \o <<DecDigits[(n % 10) + 1]>>

\* Left-pad s with zeros to width w.
RECURSIVE ZeroPad(_, _)
ZeroPad(s, w) == IF Len(s) >= w THEN s ELSE ZeroPad(<<"0">> \o s, w)

FormatByte_NoPad(byte) == Hex(byte)

\* script.py:72, f'{byte:02X}'
FormatByte(byte) == ZeroPad(Hex(byte), 2)

\* ' '.join(parts)
RECURSIVE Join(_)
Join(parts) == IF Len(parts) = 0 THEN <<>>
               ELSE IF Len(parts) = 1 THEN parts[1]
               ELSE parts[1] \o <<" ">> \o Join(Tail(parts))

DataHex_Classic8(data) ==
    Join([i \in 1..(IF Len(data) < 8 THEN Len(data) ELSE 8) |-> FormatByte(data[i])])

\* script.py:72, data_hex
DataHex(data) ==
    IF Len(data) > 0 THEN Join([i \in 1..Len(data) |-> FormatByte(data[i])])
    ELSE <<>>

\* script.py:76, f'{msg.timestamp:.6f}'; timestamps are modelled at
\* microsecond resolution (the integer number of microseconds).
FormatTimestamp(us) ==
    Dec(us \div 1000000) \o <<".">> \o ZeroPad(Dec(us % 1000000), 6)

\* script.py:78, f'0x{msg.arbitration_id:X}'
ArbitrationIdHex(id) == <<"0", "x">> \o Hex(id)

\* str(bool)
PyStr(b) == IF b THEN "True" ELSE "False"

--------------------------------------------------------------------------
(* pathlib, as main uses it (script.py:148-157).  Paths are normalised    *)
(* and have a non-empty final component.                                  *)

\* PurePath.name: the final component.
PathName(p) == SubSeq(p, LastIndexOf(p, "/") + 1, Len(p))

\* PurePath.suffix: from the last dot of the name, unless that dot is the
\* name's first or last character.
PathSuffix(p) ==
    LET name == PathName(p)
        i    == LastIndexOf(name, ".")
    IN  IF 1 < i /\ i < Len(name) THEN SubSeq(name, i, Len(name)) ELSE <<>>

\* PurePath.with_suffix(suffix)
WithSuffix(p, suffix) ==
    IF PathSuffix(p) = <<>> THEN p \o suffix
    ELSE SubSeq(p, 1, Len(p) - Len(PathSuffix(p))) \o suffix

DotCsv == <<".", "c", "s", "v">>

\* The input_file arguments tried: log.blf, d.1/log, .blf, a.b.blf
InputPaths ==
    { <<"l", "o", "g", ".", "b", "l", "f">>,
      <<"d", ".", "1", "/", "l", "o", "g">>,
      <<".", "b", "l", "f">>,
      <<"a", ".", "b", ".", "b", "l", "f">> }

\* The optional output_file argument (script.py:126-131): absent (None),
\* given as the empty string, or given as o.txt.
OutputArgs ==
    { [given |-> FALSE, value |-> <<>>],
      [given |-> TRUE,  value |-> <<>>],
      [given |-> TRUE,  value |-> <<"o", ".", "t", "x", "t">>] }

\* Python truthiness of args.output_file (script.py:154): None and '' are
\* both false.
Truthy(arg) == arg.given /\ Len(arg.value) > 0

OutputPathOf_AlwaysDefault(args) == WithSuffix(args.input_file, DotCsv)

\* script.py:153-157
OutputPathOf(args) ==
    IF Truthy(args.output_file) THEN args.output_file.value
    ELSE WithSuffix(args.input_file, DotCsv)

--------------------------------------------------------------------------
(* The BLF file and the reader's decoding contract *)

\* The byte length a DLC implies: identity up to 8, the CAN FD table above.
DlcToByteLength(dlc) ==
    IF dlc <= 8 THEN dlc
    ELSE <<12, 16, 20, 24, 32, 48, 64>>[dlc - 8]

\* A standard CAN message, ID 0x123, DLC 4, data 01 02 03 04.
StdMsg ==
    [timestamp |-> 1500000, has_channel |-> TRUE, channel |-> "0",
     arbitration_id |-> 291, is_extended_id |-> FALSE,
     is_remote_frame |-> FALSE, is_error_frame |-> FALSE,
     dlc |-> 4, data |-> <<1, 2, 3, 4>>]

\* An extended CAN FD message, ID 0x1ABCDEF0, DLC 9 (12 bytes).
FdMsg ==
    [timestamp |-> 2000042, has_channel |-> TRUE, channel |-> "1",
     arbitration_id |-> 448585456, is_extended_id |-> TRUE,
     is_remote_frame |-> FALSE, is_error_frame |-> FALSE,
     dlc |-> 9, data |-> <<0, 255, 165, 11, 16, 9, 10, 160, 127, 128, 1, 240>>]

\* A remote frame, ID 0x7FF, no data.
RemoteMsg ==
    [timestamp |-> 10, has_channel |-> TRUE, channel |-> "0",
     arbitration_id |-> 2047, is_extended_id |-> FALSE,
     is_remote_frame |-> TRUE, is_error_frame |-> FALSE,
     dlc |-> 0, data |-> <<>>]

\* An error frame: no arbitration ID, no data, no channel attribute.
ErrorFrame ==
    [timestamp |-> 3250000, has_channel |-> FALSE, channel |-> "0",
     arbitration_id |-> 0, is_extended_id |-> FALSE,
     is_remote_frame |-> FALSE, is_error_frame |-> TRUE,
     dlc |-> 0, data |-> <<>>]

\* An object whose body carries 3 data bytes under DLC 4.
BadDlcMsg ==
    [timestamp |-> 7, has_channel |-> TRUE, channel |-> "0",
     arbitration_id |-> 16, is_extended_id |-> FALSE,
     is_remote_frame |-> FALSE, is_error_frame |-> FALSE,
     dlc |-> 4, data |-> <<170, 187, 204>>]

\* The objects a modelled file is made of; a truncated object has fewer
\* bytes than its header declares.
Objects ==
    { [truncated |-> FALSE, body |-> StdMsg],
      [truncated |-> FALSE, body |-> FdMsg],
      [truncated |-> FALSE, body |-> RemoteMsg],
      [truncated |-> FALSE, body |-> ErrorFrame],
      [truncated |-> FALSE, body |-> BadDlcMsg],
      [truncated |-> TRUE,  body |-> StdMsg] }

\* The byte offset of the i-th object of the stream.
ObjectOffset(i) == 144 + 48 * (i - 1)

\* The decoders' validation before a record is returned.
ValidBody(r) ==
    /\ Len(r.data) = DlcToByteLength(r.dlc)
    /\ r.arbitration_id <= (IF r.is_extended_id THEN 536870911 ELSE 2047)

NoRecord == ErrorFrame

NoError == [kind |-> "", offset |-> "", message |-> <<>>]

\* The error the reader constructor raises on a bad signature.
InvalidSignature ==
    [kind |-> "InvalidSignature", offset |-> "0",
     message |-> <<"Unexpected", "file", "format">>]

\* One next() of the reader on the i-th object: a record or a decode error.
Decode(obj, i) ==
    IF obj.truncated
    THEN [ok |-> FALSE, record |-> NoRecord,
          error |-> [kind |-> "OutOfBounds", offset |-> ToString(ObjectOffset(i)),
                     message |-> <<"unexpected", "end", "of", "data">>]]
    ELSE IF ~ValidBody(obj.body)
    THEN [ok |-> FALSE, record |-> NoRecord,
          error |-> [kind |-> "MalformedBody", offset |-> ToString(ObjectOffset(i)),
                     message |-> <<"MalformedBody", "at", "offset",
                                   ToString(ObjectOffset(i))>>]]
    ELSE [ok |-> TRUE, record |-> obj.body, error |-> NoError]

--------------------------------------------------------------------------
(* convert_blf_to_csv: rows, the CSV writer, the exception handlers *)

fieldnames_IdFirst ==
    <<"arbitration_id", "timestamp", "channel", "is_extended_id",
      "is_remote_frame", "is_error_frame", "dlc", "data">>

\* script.py:47-56
fieldnames ==
    <<"timestamp", "channel", "arbitration_id", "is_extended_id",
      "is_remote_frame", "is_error_frame", "dlc", "data">>

ShouldSkip_IgnoreOption(msg, include_error_frames) == msg.is_error_frame

\* script.py:67
ShouldSkip(msg, include_error_frames) ==
    msg.is_error_frame /\ ~include_error_frames

\* script.py:75-84, the row dictionary of one message
RowOf(msg) ==
    [timestamp       |-> FormatTimestamp(msg.timestamp),
     channel         |-> IF msg.has_channel THEN msg.channel ELSE "N/A",
     arbitration_id  |-> ArbitrationIdHex(msg.arbitration_id),
     is_extended_id  |-> PyStr(msg.is_extended_id),
     is_remote_frame |-> PyStr(msg.is_remote_frame),
     is_error_frame  |-> PyStr(msg.is_error_frame),
     dlc             |-> msg.dlc,
     data            |-> DataHex(msg.data)]

\* csv.DictWriter.writeheader (script.py:59): the field names, in order.
HeaderLine == fieldnames

\* csv.DictWriter.writerow (script.py:86): the row's cells in the order of
\* fieldnames.
RowLine(row) == [i \in 1..Len(fieldnames) |-> row[fieldnames[i]]]

WriteRow_AfterHeader(lines, row) ==
    <<Head(lines)>> \o <<RowLine(row)>> \o Tail(lines)

\* script.py:86, the row goes to the end of the file.
WriteRow(lines, row) == Append(lines, RowLine(row))

\* One printed line: its format and the values filled in.
Line(fmt, args) == [fmt |-> fmt, args |-> args]

ExceptionStr_Repr(e) == <<e.kind>> \o e.message \o <<e.offset>>

\* str(e) (script.py:106): the exception's message, without its type.
ExceptionStr(e) == e.message

OnException_Swallow(e, blf_file_path) ==
    [line |-> Line("Error during conversion: {}", ExceptionStr(e)),
     returns |-> TRUE]

\* script.py:99-107, the except clauses: what is printed and returned.
OnException(e, blf_file_path) ==
    IF e.kind = "FileNotFoundError"
    THEN [line |-> Line("Error: BLF file '{}' not found.", <<blf_file_path>>),
          returns |-> FALSE]
    ELSE IF e.kind = "PermissionError"
    THEN [line |-> Line("Error: Permission denied accessing files.", <<>>),
          returns |-> FALSE]
    ELSE [line |-> Line("Error during conversion: {}", ExceptionStr(e)),
          returns |-> FALSE]

FileNotFoundError ==
    [kind |-> "FileNotFoundError", offset |-> "", message |-> <<"No", "such", "file">>]

PermissionError ==
    [kind |-> "PermissionError", offset |-> "", message |-> <<"Permission", "denied">>]

ExitCode_AlwaysZero(ok) == 0

\* script.py:171
ExitCode(ok) == IF ok THEN 0 ELSE 1

ConvertSteps_CsvFirst == <<"open_blf", "open_csv", "reader", "header", "loop">>

\* script.py:41-65, the order of the steps of convert_blf_to_csv: open the
\* BLF file, construct the reader, open the CSV file, write the header,
\* iterate.
ConvertSteps == <<"open_blf", "reader", "open_csv", "header", "loop">>

StepAfter(step) ==
    ConvertSteps[(CHOOSE i \in 1..Len(ConvertSteps) : ConvertSteps[i] = step) + 1]

--------------------------------------------------------------------------
(* State *)

VARIABLES
    argv,           \* the parsed arguments: input_file, output_file, include_errors
    input_exists,   \* whether the input file is on disk
    blf,            \* the input file: signature_ok, objects
    csv_before,     \* the file at the output path before the run
    csv_file,       \* the file at the output path: exists, lines
    csv_opened,     \* whether this run has opened the output file
    output_path,    \* main's output_path, <<>> until computed
    pc,             \* where the program is
    reader_pos,     \* number of records the reader has yielded
    message_count,  \* script.py:61
    error_count,    \* script.py:62
    stdout,         \* the lines printed
    success,        \* convert_blf_to_csv's return value, <<>> until it returns
    exit_code       \* main's return value, <<>> until it returns

vars == <<argv, input_exists, blf, csv_before, csv_file, csv_opened,
          output_path, pc, reader_pos, message_count, error_count, stdout,
          success, exit_code>>

NoFile == [exists |-> FALSE, lines |-> <<>>]

\* A file left at the output path by something else.
OldFile == [exists |-> TRUE, lines |-> <<<<"old", "content">>>>]

Init ==
    /\ argv \in [input_file : InputPaths, output_file : OutputArgs,
                 include_errors : BOOLEAN]
    /\ input_exists \in BOOLEAN
    /\ blf \in [signature_ok : BOOLEAN, objects : SeqsUpTo(Objects, MaxObjects)]
    /\ csv_before \in {NoFile, OldFile}
    /\ csv_file = csv_before
    /\ csv_opened = FALSE
    /\ output_path = <<>>
    /\ pc = "main"
    /\ reader_pos = 0
    /\ message_count = 0
    /\ error_count = 0
    /\ stdout = <<>>
    /\ success = <<>>
    /\ exit_code = <<>>

--------------------------------------------------------------------------
(* main, script.py:112-171 *)

\* script.py:145-162: validate the input file, determine the output path,
\* print the banner.
Main ==
    /\ pc = "main"
    /\ IF ~input_exists
       THEN /\ stdout' = Append(stdout,
                   Line("Error: Input file '{}' does not exist.", <<argv.input_file>>))
            /\ exit_code' = <<1>>
            /\ pc' = "exit"
            /\ UNCHANGED output_path
       ELSE /\ output_path' = OutputPathOf(argv)
            /\ stdout' = stdout \o
                   << Line("Converting BLF file: {}", <<argv.input_file>>),
                      Line("Output CSV file: {}", <<OutputPathOf(argv)>>),
                      Line("Include error frames: {}", <<PyStr(argv.include_errors)>>),
                      Line("--------------------------------------------------", <<>>) >>
            /\ pc' = ConvertSteps[1]
            /\ UNCHANGED exit_code
    /\ UNCHANGED <<argv, input_exists, blf, csv_before, csv_file, csv_opened,
                   reader_pos, message_count, error_count, success>>

\* The input file is removed by something else between main's existence
\* check (script.py:149) and the open (script.py:41).
InputVanishes ==
    /\ pc = "open_blf"
    /\ input_exists
    /\ input_exists' = FALSE
    /\ UNCHANGED <<argv, blf, csv_before, csv_file, csv_opened, output_path, pc,
                   reader_pos, message_count, error_count, stdout, success,
                   exit_code>>

\* script.py:171
MainReturn ==
    /\ pc = "returned"
    /\ exit_code' = <<ExitCode(success[1])>>
    /\ pc' = "exit"
    /\ UNCHANGED <<argv, input_exists, blf, csv_before, csv_file, csv_opened,
                   output_path, reader_pos, message_count, error_count, stdout,
                   success>>

--------------------------------------------------------------------------
(* convert_blf_to_csv, script.py:29-109 *)

\* An exception reaches the except clauses (script.py:99-107): both files
\* are closed by their with blocks, the report is printed, the function
\* returns.
Raise(e) ==
    /\ stdout' = Append(stdout, OnException(e, argv.input_file).line)
    /\ success' = <<OnException(e, argv.input_file).returns>>
    /\ pc' = "returned"

\* script.py:41
OpenBlf ==
    /\ pc = "open_blf"
    /\ \E denied \in BOOLEAN :
          IF ~input_exists THEN Raise(FileNotFoundError)
          ELSE IF denied THEN Raise(PermissionError)
          ELSE /\ pc' = StepAfter("open_blf")
               /\ UNCHANGED <<stdout, success>>
    /\ UNCHANGED <<argv, input_exists, blf, csv_before, csv_file, csv_opened,
                   output_path, reader_pos, message_count, error_count, exit_code>>

\* script.py:42: the reader's constructor reads the file header and rejects
\* a bad signature.
ConstructReader ==
    /\ pc = "reader"
    /\ IF ~blf.signature_ok THEN Raise(InvalidSignature)
       ELSE /\ pc' = StepAfter("reader")
            /\ UNCHANGED <<stdout, success>>
    /\ UNCHANGED <<argv, input_exists, blf, csv_before, csv_file, csv_opened,
                   output_path, reader_pos, message_count, error_count, exit_code>>

\* script.py:45: open(csv_file_path, 'w') creates or truncates the file; it
\* fails when the path is not writable or its directory is missing.
OpenCsv ==
    /\ pc = "open_csv"
    /\ \E outcome \in {"ok", "denied", "nodir"} :
          /\ outcome = "nodir" => ~csv_file.exists
          /\ IF outcome = "ok"
             THEN /\ csv_file' = [exists |-> TRUE, lines |-> <<>>]
                  /\ csv_opened' = TRUE
                  /\ pc' = StepAfter("open_csv")
                  /\ UNCHANGED <<stdout, success>>
             ELSE /\ Raise(IF outcome = "denied" THEN PermissionError
                           ELSE FileNotFoundError)
                  /\ UNCHANGED <<csv_file, csv_opened>>
    /\ UNCHANGED <<argv, input_exists, blf, csv_before, output_path, reader_pos,
                   message_count, error_count, exit_code>>

\* script.py:58-62
WriteHeader ==
    /\ pc = "header"
    /\ csv_file' = [csv_file EXCEPT !.lines = Append(@, HeaderLine)]
    /\ message_count' = 0
    /\ error_count' = 0
    /\ pc' = StepAfter("header")
    /\ UNCHANGED <<argv, input_exists, blf, csv_before, csv_opened, output_path,
                   reader_pos, stdout, success, exit_code>>

\* script.py:65-91, one iteration of the loop: the reader yields the next
\* record, which is skipped or written.
LoopRecord ==
    /\ pc = "loop"
    /\ reader_pos < Len(blf.objects)
    /\ Decode(blf.objects[reader_pos + 1], reader_pos + 1).ok
    /\ LET msg == Decode(blf.objects[reader_pos + 1], reader_pos + 1).record
       IN  /\ reader_pos' = reader_pos + 1
           /\ IF ShouldSkip(msg, argv.include_errors)
              THEN /\ error_count' = error_count + 1
                   /\ UNCHANGED <<csv_file, message_count, stdout>>
              ELSE /\ csv_file' = [csv_file EXCEPT !.lines = WriteRow(@, RowOf(msg))]
                   /\ message_count' = message_count + 1
                   /\ stdout' = IF (message_count + 1) % ProgressEvery = 0
                                THEN Append(stdout, Line("Processed {} messages...",
                                                         <<message_count + 1>>))
                                ELSE stdout
                   /\ UNCHANGED error_count
    /\ UNCHANGED <<argv, input_exists, blf, csv_before, csv_opened, output_path,
                   pc, success, exit_code>>

\* script.py:65, the reader raises while decoding the next object.
LoopDecodeError ==
    /\ pc = "loop"
    /\ reader_pos < Len(blf.objects)
    /\ ~Decode(blf.objects[reader_pos + 1], reader_pos + 1).ok
    /\ Raise(Decode(blf.objects[reader_pos + 1], reader_pos + 1).error)
    /\ UNCHANGED <<argv, input_exists, blf, csv_before, csv_file, csv_opened,
                   output_path, reader_pos, message_count, error_count, exit_code>>

\* script.py:93-109, the reader is exhausted: the summary is printed and
\* the function returns True.
LoopEnd ==
    /\ pc = "loop"
    /\ reader_pos = Len(blf.objects)
    /\ stdout' = stdout
           \o << Line("Conversion completed successfully!", <<>>),
                 Line("Messages processed: {}", <<message_count>>) >>
           \o (IF error_count > 0
               THEN << Line("Error frames skipped: {}", <<error_count>>) >>
               ELSE << >>)
           \o << Line("Output file: {}", <<output_path>>) >>
    /\ success' = <<TRUE>>
    /\ pc' = "returned"
    /\ UNCHANGED <<argv, input_exists, blf, csv_before, csv_file, csv_opened,
                   output_path, reader_pos, message_count, error_count, exit_code>>

Next ==
    \/ Main
    \/ InputVanishes
    \/ OpenBlf
    \/ ConstructReader
    \/ OpenCsv
    \/ WriteHeader
    \/ LoopRecord
    \/ LoopDecodeError
    \/ LoopEnd
    \/ MainReturn

Spec == Init /\ [][Next]_vars

\* The program is a single thread that runs to its end: a step that can
\* be taken is taken.
\* The runs are those of one command line, convert log.blf, with no file
\* at the output path before.
FairInit ==
    /\ Init
    /\ argv.input_file = <<"l", "o", "g", ".", "b", "l", "f">>
    /\ ~argv.output_file.given
    /\ csv_before = NoFile

FairSpec == FairInit /\ [][Next]_vars /\ WF_vars(Next)

--------------------------------------------------------------------------
(* Properties *)

\* The output file has been opened and its header step is done.
InLoopOrAfter == csv_opened /\ pc \in {"loop", "returned", "exit"}

\* The records the reader has yielded so far, in order.
Consumed == [i \in 1..reader_pos |-> Decode(blf.objects[i], i).record]

\* The lines of the output file after its first.
DataLines == Tail(csv_file.lines)

ErrorFramesConsumed == {i \in 1..reader_pos : Consumed[i].is_error_frame}

OtherRecordsConsumed == {i \in 1..reader_pos : ~Consumed[i].is_error_frame}

\* The index of the cell of a column in a line.
Col(name) == CHOOSE i \in 1..8 :
    <<"timestamp", "channel", "arbitration_id", "is_extended_id",
      "is_remote_frame", "is_error_frame", "dlc", "data">>[i] = name

\* The run ended in the loop on a decode error of the reader.
AbortedByDecodeError ==
    /\ InLoopOrAfter
    /\ pc \in {"returned", "exit"}
    /\ reader_pos < Len(blf.objects)

SuccessPrinted ==
    \E i \in 1..Len(stdout) : stdout[i].fmt = "Conversion completed successfully!"

\* C1: an error frame is written as a row only when include_error_frames
\* is set; otherwise it produces no row and error_count grows by one for
\* each of them.  Every other record produces exactly one row, whatever
\* the option.
C1_ErrorFramesOnlyWhenIncluded ==
    InLoopOrAfter =>
        /\ Cardinality({j \in 1..Len(DataLines) :
               DataLines[j][Col("is_error_frame")] = "False"})
             = Cardinality(OtherRecordsConsumed)
        /\ Cardinality({j \in 1..Len(DataLines) :
               DataLines[j][Col("is_error_frame")] = "True"})
             = (IF argv.include_errors THEN Cardinality(ErrorFramesConsumed) ELSE 0)
        /\ ~argv.include_errors => error_count = Cardinality(ErrorFramesConsumed)

\* A finished run over a file of one error frame with the option off: no
\* data row, a skipped count of 1, reported.
C1_Witness ==
    /\ pc = "exit"
    /\ ~argv.include_errors
    /\ blf.objects = <<[truncated |-> FALSE, body |-> ErrorFrame]>>
    /\ InLoopOrAfter
    /\ DataLines = <<>>
    /\ error_count = 1
    /\ \E i \in 1..Len(stdout) :
          stdout[i].fmt = "Error frames skipped: {}" /\ stdout[i].args = <<1>>

\* C7: once the output file's header step is done, the file's first line
\* is the header with the literal column names in order, it occurs once,
\* and it was written before any record was read and before any data row.
C7_HeaderFirstOnce ==
    /\ InLoopOrAfter =>
          /\ Len(csv_file.lines) >= 1
          /\ csv_file.lines[1] =
                <<"timestamp", "channel", "arbitration_id", "is_extended_id",
                  "is_remote_frame", "is_error_frame", "dlc", "data">>
          /\ \A j \in 1..Len(DataLines) :
                DataLines[j][Col("is_extended_id")] \in {"True", "False"}
    /\ (csv_opened /\ ~InLoopOrAfter) => (reader_pos = 0 /\ csv_file.lines = <<>>)
    /\ ~csv_opened => reader_pos = 0

\* A finished run whose input yields only a skipped error frame: the file
\* holds the header and nothing else.
C7_Witness ==
    /\ pc = "exit"
    /\ InLoopOrAfter
    /\ reader_pos = 1
    /\ error_count = 1
    /\ csv_file.lines = <<fieldnames>>

\* The rows the records consumed so far should have produced, in order.
KeptRecords ==
    SelectSeq(Consumed, LAMBDA r : ~r.is_error_frame \/ argv.include_errors)

C10_Counts ==
    InLoopOrAfter =>
        /\ message_count + error_count = reader_pos
        /\ message_count = Len(DataLines)
        /\ argv.include_errors => error_count = 0
        /\ Len(DataLines) = Len(KeptRecords)
        /\ \A j \in 1..Len(DataLines) :
              /\ DataLines[j][Col("timestamp")] = FormatTimestamp(KeptRecords[j].timestamp)
              /\ DataLines[j][Col("dlc")] = KeptRecords[j].dlc
              /\ DataLines[j][Col("is_remote_frame")] = PyStr(KeptRecords[j].is_remote_frame)

C10_ErrorFree ==
    /\ pc = "loop"
    /\ \A i \in 1..Len(blf.objects) : Decode(blf.objects[i], i).ok

C10_Done == pc = "exit" /\ success = <<TRUE>> /\ exit_code = <<0>>

\* C10: in the loop and after, message_count + error_count is the number
\* of records consumed, message_count is the number of data rows, the rows
\* are in the order of their records, error_count stays 0 when error
\* frames are included; the reader position only moves forward by one;
\* and a loop over an error-free file ends with True and exit code 0.
C10_CountsOrderTermination ==
    /\ []C10_Counts
    /\ [][reader_pos' = reader_pos \/ reader_pos' = reader_pos + 1]_vars
    /\ (C10_ErrorFree ~> C10_Done)

\* A finished run of two records, one written and one skipped.
C10_Witness ==
    /\ C10_Done
    /\ reader_pos = 2
    /\ message_count = 1
    /\ error_count = 1
    /\ Len(DataLines) = 1

\* The lines the records consumed so far should have left in the file.
ExpectedDataLines == [j \in 1..Len(KeptRecords) |-> RowLine(RowOf(KeptRecords[j]))]

\* C2: when the reader raises after k records, the run stops at that first
\* error: nothing after it is read, the rows of the first k records stay
\* in the output file, convert_blf_to_csv returns False without the
\* success message, and main exits with code 1.  A run that reports
\* success has read every object.
C2_AbortAtFirstDecodeError ==
    /\ AbortedByDecodeError =>
          /\ ~Decode(blf.objects[reader_pos + 1], reader_pos + 1).ok
          /\ \A i \in 1..reader_pos : Decode(blf.objects[i], i).ok
          /\ success = <<FALSE>>
          /\ ~SuccessPrinted
          /\ Last(stdout).fmt = "Error during conversion: {}"
          /\ pc = "exit" => exit_code = <<1>>
          /\ csv_file.exists
          /\ Len(csv_file.lines) = 1 + Len(KeptRecords)
          /\ DataLines = ExpectedDataLines
    /\ (success = <<TRUE>> \/ SuccessPrinted) =>
          /\ reader_pos = Len(blf.objects)
          /\ \A i \in 1..Len(blf.objects) : Decode(blf.objects[i], i).ok

\* A finished run whose second object is truncated: one row was written
\* and is still there.
C2_Witness ==
    /\ AbortedByDecodeError
    /\ pc = "exit"
    /\ reader_pos = 1
    /\ blf.objects[2].truncated
    /\ Len(DataLines) = 1
    /\ exit_code = <<1>>

\* C3: when the input file does not exist the run ends with a report and
\* exit code 1 and the output file is neither created nor overwritten:
\* either main reports it without calling convert_blf_to_csv, or, the file
\* having disappeared after main's check, convert_blf_to_csv reports it
\* and returns False.
C3_MissingInput ==
    (~input_exists /\ pc \in {"returned", "exit"}) =>
        /\ csv_file = csv_before
        /\ ~csv_opened
        /\ pc = "exit" => exit_code = <<1>>
        /\ success \in {<<>>, <<FALSE>>}
        /\ success = <<>> =>
              /\ Len(stdout) = 1
              /\ stdout[1].fmt = "Error: Input file '{}' does not exist."
              /\ output_path = <<>>
        /\ success = <<FALSE>> =>
              Last(stdout).fmt = "Error: BLF file '{}' not found."

\* The input file disappeared after main's check, with a file already at
\* the output path.
C3_Witness ==
    /\ ~input_exists
    /\ pc = "exit"
    /\ success = <<FALSE>>
    /\ exit_code = <<1>>
    /\ csv_before = OldFile
    /\ csv_file = OldFile

\* C4: a file with a corrupted signature is rejected at reader
\* construction, before the output file is opened: no record is consumed,
\* nothing is written, a file at the output path keeps its content, and
\* the run fails.
C4_BadSignatureRejectedFirst ==
    ~blf.signature_ok =>
        /\ csv_file = csv_before
        /\ ~csv_opened
        /\ reader_pos = 0
        /\ pc \notin {"open_csv", "header", "loop"}
        /\ success # <<TRUE>>
        /\ pc = "exit" => exit_code = <<1>>

\* The rejection happened, with a file already at the output path.
C4_Witness ==
    /\ ~blf.signature_ok
    /\ pc = "exit"
    /\ csv_before = OldFile
    /\ csv_file = OldFile
    /\ Last(stdout).fmt = "Error during conversion: {}"
    /\ Last(stdout).args = InvalidSignature.message

\* The error the reader raised when the run was aborted in the loop.
RaisedError == Decode(blf.objects[reader_pos + 1], reader_pos + 1).error

\* C5 as stated: the report of a decode error contains the error kind and
\* the byte offset.
C5_ReportHasKindAndOffset ==
    AbortedByDecodeError =>
        /\ RaisedError.kind \in Range(Last(stdout).args)
        /\ RaisedError.offset \in Range(Last(stdout).args)

\* C5 as amended: the report of a decode error is the fixed text "Error
\* during conversion: " followed by the exception's message, and nothing
\* else.
C5_ReportIsMessage ==
    AbortedByDecodeError =>
        /\ Last(stdout).fmt = "Error during conversion: {}"
        /\ Last(stdout).args = RaisedError.message

\* An abort whose report names neither the kind nor the offset.
C5_Witness ==
    /\ AbortedByDecodeError
    /\ pc = "exit"
    /\ RaisedError.kind = "OutOfBounds"
    /\ Last(stdout).fmt = "Error during conversion: {}"
    /\ RaisedError.kind \notin Range(Last(stdout).args)
    /\ RaisedError.offset \notin Range(Last(stdout).args)

\* The number of bytes a data cell shows.
ByteCount(cell) ==
    IF cell = <<>> THEN 0
    ELSE Cardinality({i \in 1..Len(cell) : cell[i] = " "}) + 1

\* C6: every written row shows as many data bytes as its DLC implies, its
\* dlc and data being those of the record it was written from.
C6_DataLengthMatchesDlc ==
    InLoopOrAfter =>
        /\ Len(DataLines) = Len(KeptRecords)
        /\ \A j \in 1..Len(DataLines) :
              /\ DataLines[j][Col("dlc")] = KeptRecords[j].dlc
              /\ ByteCount(DataLines[j][Col("data")]) = Len(KeptRecords[j].data)
              /\ ByteCount(DataLines[j][Col("data")])
                    = DlcToByteLength(DataLines[j][Col("dlc")])

\* A CAN FD row of DLC 9 with 12 bytes, followed by an included error
\* frame's row.
C6_Witness ==
    /\ pc = "exit"
    /\ InLoopOrAfter
    /\ argv.include_errors
    /\ Len(DataLines) = 2
    /\ DataLines[1][Col("dlc")] = 9
    /\ ByteCount(DataLines[1][Col("data")]) = 12
    /\ DataLines[2][Col("is_error_frame")] = "True"

\* The value of an uppercase hexadecimal digit.
HexCharValue(c) ==
    CASE c = "0" -> 0 [] c = "1" -> 1 [] c = "2" -> 2 [] c = "3" -> 3
      [] c = "4" -> 4 [] c = "5" -> 5 [] c = "6" -> 6 [] c = "7" -> 7
      [] c = "8" -> 8 [] c = "9" -> 9 [] c = "A" -> 10 [] c = "B" -> 11
      [] c = "C" -> 12 [] c = "D" -> 13 [] c = "E" -> 14 [] c = "F" -> 15

UpperHexChars ==
    {"0", "1", "2", "3", "4", "5", "6", "7", "8", "9", "A", "B", "C", "D", "E", "F"}

\* The number a string of uppercase hexadecimal digits denotes.
RECURSIVE HexValue(_)
HexValue(s) ==
    IF Len(s) = 0 THEN 0
    ELSE 16 * HexValue(SubSeq(s, 1, Len(s) - 1)) + HexCharValue(s[Len(s)])

\* The arbitration_id cell: 0x, then uppercase hex digits without leading
\* zeros, denoting id.
IsHexOf(cell, id) ==
    /\ Len(cell) >= 3
    /\ cell[1] = "0" /\ cell[2] = "x"
    /\ \A i \in 3..Len(cell) : cell[i] \in UpperHexChars
    /\ Len(cell) > 3 => cell[3] # "0"
    /\ HexValue(SubSeq(cell, 3, Len(cell))) = id

\* The data cell: each byte as two uppercase hex digits, in order, single
\* spaces between them.
IsBytesOf(cell, data) ==
    /\ Len(cell) = (IF Len(data) = 0 THEN 0 ELSE 3 * Len(data) - 1)
    /\ \A k \in 1..Len(data) :
          /\ cell[3 * k - 2] \in UpperHexChars
          /\ cell[3 * k - 1] \in UpperHexChars
          /\ 16 * HexCharValue(cell[3 * k - 2]) + HexCharValue(cell[3 * k - 1]) = data[k]
          /\ k < Len(data) => cell[3 * k] = " "

\* C8: every written row renders its record: the ID as 0x and uppercase
\* hex without leading zeros, the data as two-digit uppercase hex bytes in
\* order separated by single spaces (empty without data), the three flags
\* as True or False, the DLC unchanged.
C8_RowRendering ==
    InLoopOrAfter =>
        /\ Len(DataLines) = Len(KeptRecords)
        /\ \A j \in 1..Len(DataLines) :
              LET line == DataLines[j]
                  r    == KeptRecords[j]
              IN  /\ Len(line) = 8
                  /\ IsHexOf(line[Col("arbitration_id")], r.arbitration_id)
                  /\ IsBytesOf(line[Col("data")], r.data)
                  /\ line[Col("is_extended_id")]
                        = (IF r.is_extended_id THEN "True" ELSE "False")
                  /\ line[Col("is_remote_frame")]
                        = (IF r.is_remote_frame THEN "True" ELSE "False")
                  /\ line[Col("is_error_frame")]
                        = (IF r.is_error_frame THEN "True" ELSE "False")
                  /\ line[Col("dlc")] = r.dlc

\* The file of one standard message, ID 0x123, DLC 4, data 01 02 03 04,
\* gives exactly one row: 0x123, False, 01 02 03 04.
C8_Witness ==
    /\ pc = "exit"
    /\ success = <<TRUE>>
    /\ blf.objects = <<[truncated |-> FALSE, body |-> StdMsg]>>
    /\ Len(DataLines) = 1
    /\ DataLines[1][Col("arbitration_id")] = <<"0", "x", "1", "2", "3">>
    /\ DataLines[1][Col("is_extended_id")] = "False"
    /\ DataLines[1][Col("dlc")] = 4
    /\ DataLines[1][Col("data")] =
          <<"0", "1", " ", "0", "2", " ", "0", "3", " ", "0", "4">>

\* main went past its input check and computed the output path.
MainProceeded ==
    /\ stdout # <<>>
    /\ stdout[1].fmt = "Converting BLF file: {}"

\* A dot of the path that starts an extension of its final component.
ExtensionDot(p, i) ==
    /\ p[i] = "."
    /\ i > 1 /\ p[i - 1] # "/"
    /\ i < Len(p)
    /\ \A j \in (i + 1)..Len(p) : p[j] \notin {".", "/"}

\* out is inp with its extension replaced by .csv: the same directory and
\* stem, then .csv; a path without an extension gets .csv added.
IsDefaultOutput(out, inp) ==
    \E n \in 1..Len(inp) :
        /\ out = SubSeq(inp, 1, n) \o <<".", "c", "s", "v">>
        /\ IF \E i \in 1..Len(inp) : ExtensionDot(inp, i)
           THEN ExtensionDot(inp, n + 1)
           ELSE n = Len(inp)

\* C9 as stated: without an output argument the output path is the input
\* path with its extension replaced by .csv; with one, it is that argument
\* unchanged.
C9_OutputPathAsStated ==
    MainProceeded =>
        IF argv.output_file.given
        THEN output_path = argv.output_file.value
        ELSE IsDefaultOutput(output_path, argv.input_file)

\* C9 as amended: a non-empty output argument is used unchanged; without
\* one, or with an empty one, the output path is the input path with its
\* extension replaced by .csv.
C9_OutputPathNonEmptyArg ==
    MainProceeded =>
        IF argv.output_file.given /\ argv.output_file.value # <<>>
        THEN output_path = argv.output_file.value
        ELSE IsDefaultOutput(output_path, argv.input_file)

\* The output argument is the empty string and the default is applied.
C9_Witness ==
    /\ MainProceeded
    /\ argv.output_file.given
    /\ argv.output_file.value = <<>>
    /\ argv.input_file = <<"a", ".", "b", ".", "b", "l", "f">>
    /\ output_path = <<"a", ".", "b", ".", "c", "s", "v">>

==========================================================================
